---- MODULE Spec2Model ----
(***************************************************************************)
(* Playback controllers and three-phase timeline of the v6 hero scene.     *)
(*                                                                         *)
(*  - AnimationMappingSystem (animation-mapping-system.js): clock,         *)
(*    play/pause/stop/seek/speed, sequential asynchronous initialize().    *)
(*  - MultiSourceAnimationExtractor: five concurrent extractions, phase    *)
(*    durations, getCurrentPhase.                                          *)
(*  - CompleteAnimationScene (components/AnimationControls.jsx): the       *)
(*    looping consumer, with its main clock and its idle Phase-1 clock.    *)
(*                                                                         *)
(* Units.  AnimationMappingSystem: deltaTime is in whole seconds, speed in *)
(* tenths (1.0x is 10), so globalTime and seek targets are in tenths of a  *)
(* second and `deltaTime * playbackSpeed` reads as in the code.            *)
(* Scene and extractor: every time and duration is in whole seconds.       *)
(*                                                                         *)
(* Studied on their own, each under a specification of its own: the end    *)
(* adjustment of AnimatedCamera / AnimatedRings (tenths of a second), the  *)
(* keyframe samplers (half seconds, exact fractions), and the extraction   *)
(* of ring clips with AnimationExtractor's cache (seconds).                *)
(***************************************************************************)
EXTENDS Integers, Sequences, FiniteSets, TLC

VARIABLES
    \* ---- AnimationMappingSystem ----
    amsPc,            \* position of initialize(): "idle", "loading", "done", "failed"
    amsLoaded,        \* number of rings whose extraction has been awaited
    ringAnimations,   \* ringId -> clip (present = FALSE: no entry in the Map)
    ringSampleTime,   \* ringId -> normalizedTime last handed to the sampler
    isInitialized,
    globalTime,
    isPlaying,
    playbackSpeed,
    \* ---- MultiSourceAnimationExtractor ----
    extPc,            \* position of initialize(): "idle", "extracting", "done"
    extResult,        \* source -> settled result of its extraction promise
    extSettled,       \* source -> BOOLEAN
    animationData,    \* source -> clip (present = FALSE: null)
    phaseDurations,   \* [phase1, phase2, phase3]
    totalDuration,
    extInitialized,   \* MultiSourceAnimationExtractor.isInitialized
    \* ---- CompleteAnimationScene ----
    sceneInitialized, \* React state isInitialized
    sceneIsPlaying,   \* React state isPlaying
    currentTime,      \* React state currentTime
    phase1Time,       \* React state phase1Time
    currentPhase,     \* React state currentPhase: [phase, phaseTime]
    \* ---- history ----
    lastOp            \* the operation that produced the current state

amsVars   == <<amsPc, amsLoaded, ringAnimations, ringSampleTime, isInitialized,
               globalTime, isPlaying, playbackSpeed>>
extVars   == <<extPc, extResult, extSettled, animationData, phaseDurations,
               totalDuration, extInitialized>>
sceneVars == <<sceneInitialized, sceneIsPlaying, currentTime, phase1Time,
               currentPhase>>

VARIABLES
    \* ---- end adjustment of AnimatedCamera and AnimatedRings ----
    fxTimeline,       \* phase durations the frame updaters run on (tenths)
    fxFrame,          \* props of the last frame: currentTime, isPlaying, phase1Time
    cameraSmooth,     \* smoothFactor of AnimatedCamera's last frame
    ringsSmooth       \* smoothFactor of AnimatedRings' last frame

adjustVars == <<fxTimeline, fxFrame, cameraSmooth, ringsSmooth>>

VARIABLES
    \* ---- keyframe sampling (interpolateProperty and its callers) ----
    sampledClip,      \* the clip sampled: [duration, track]
    sampled           \* the last query and what it returned: [time, value]

samplerVars == <<sampledClip, sampled>>

VARIABLES
    \* ---- extraction of ring clips (AnimationExtractor and its cache) ----
    gltfAnimations,   \* source -> the animations of the source's GLTF
    animationCache,   \* ringId's cacheKey -> cached clip (kind "none": no entry)
    scanCount,        \* cacheKey -> calls of extractObjectAnimationTracks
    returned          \* the last extraction request: how it was served
                      \* ("cache", "scan", "error", "none" before any) and
                      \* the clip it returned

extractionVars == <<gltfAnimations, animationCache, scanCount, returned>>

VARIABLES
    \* ---- the objects posed by AnimatedCamera and AnimatedRings ----
    cameraView,       \* what the camera was last set from (seconds)
    ringsView         \* what the rings were last set from (seconds)

viewVars  == <<cameraView, ringsView>>

VARIABLES
    \* ---- App (the host of CompleteAnimationScene) ----
    appIsPlaying,     \* React state isPlaying of App
    appCurrentTime    \* React state currentTime of App

hostVars  == <<appIsPlaying, appCurrentTime>>

VARIABLES
    \* ---- composition of base and animated ring transforms ----
    composeClip,      \* the ring clip composed from: [duration, position, scale]
    composed          \* the last composed transform handed out

composeVars == <<composeClip, composed>>

VARIABLES
    \* ---- one ring through the three phases ----
    phaseScenario,    \* what was extracted: [v6, ring, camera]
    ringPose,         \* position of the ring's group object
    ringQuery         \* the last frame of AnimatedRings: the time it asked
                      \* for and what getRingTransformAtTime returned

phaseRingVars == <<phaseScenario, ringPose, ringQuery>>

\* the state of the components that are studied on their own
pureVars  == <<adjustVars, samplerVars, extractionVars>>
vars      == <<amsVars, extVars, sceneVars, viewVars, hostVars, pureVars,
               composeVars, phaseRingVars, lastOp>>

(***************************************************************************)
(* Bounds                                                                  *)
(***************************************************************************)
MaxClock        == 50   \* AnimationMappingSystem clock cap (tenths of a second)
MaxDelta        == 1    \* largest frame deltaTime (seconds)
AmsClipDuration == 30   \* a positive ring clip duration (tenths of a second)
OtherV6Duration == 3    \* a second positive v6 clip duration (seconds)
RingDuration    == 4    \* a positive Scenes-B ring clip duration (seconds)
MaxSeek         == 16   \* largest seek target of the scene (seconds)
MinSeek         == 3    \* the most negative seek target is -MinSeek (seconds)
MaxFxTime       == 140  \* largest frame time of the end adjustment (tenths)
ShortPhase3     == 10   \* a Phase 3 shorter than the adjustment window (tenths)
MaxKeys         == 3    \* most keyframes of a sampled track
MaxKeyTime      == 4    \* largest keyframe time (half seconds)
LoopDuration    == 4    \* duration of the sampled looping clip (half seconds)
MaxQuery        == 6    \* largest query time of the sampler (half seconds)
MinQuery        == 2    \* the most negative query time is -MinQuery
MaxLoops        == 2    \* most whole loops added to or taken from a query time
OtherDuration   == 5    \* declared duration of an animation of another node (seconds)
MaxScans        == 2    \* most scans of one source that are followed
MaxFrameTime    == 10   \* latest frame time of the one-ring frames (seconds)
MaxIdleTime     == 1    \* latest idle preview time of the one-ring frames (seconds)

DeltaTimes  == 0..MaxDelta
SpeedInputs == {-10, 0, 1, 10, 50, 51, 100}       \* tenths: -1.0 .. 10.0
AmsSeekTimes == {-15, -1, 0, 7, MaxClock}          \* tenths of a second
SceneSeekTimes == {0 - MinSeek, 0, 7, 9, MaxSeek}  \* seconds
Rings       == {"ring1", "ring2", "ring3"}
Sources     == {"v6Original", "camera"} \cup Rings
RingOrder   == <<"ring1", "ring2", "ring3">>

(***************************************************************************)
(* Values                                                                  *)
(***************************************************************************)
Null        == [present |-> FALSE, duration |-> 0]
Clip(d)     == [present |-> TRUE, duration |-> d]

\* A JavaScript number that may be NaN.
NaN         == [nan |-> TRUE, v |-> 0]
Num(n)      == [nan |-> FALSE, v |-> n]

Max(a, b)   == IF a >= b THEN a ELSE b
Min(a, b)   == IF a <= b THEN a ELSE b

\* JavaScript a % b on integers: truncated remainder (sign of the dividend),
\* NaN when b = 0.
JsRem(a, b) == IF a >= 0 THEN a % b ELSE 0 - ((0 - a) % b)
JsMod(a, b) == IF b = 0 THEN NaN ELSE Num(JsRem(a, b))

\* an operation, and whether it asked the timeline (getCurrentPhase,
\* getCameraTransformAtTime, getAllTransformsAtTime)
Op(name, arg) == [op |-> name, arg |-> arg, queried |-> FALSE]
Querying(name, arg, asked) == [op |-> name, arg |-> arg, queried |-> asked]

\* The normalized time a ring was last sampled at (sampled = FALSE: the
\* animated transform still has its constructor value).
NoSample    == [sampled |-> FALSE, time |-> Num(0)]
SampleAt(t) == [sampled |-> TRUE, time |-> t]

(***************************************************************************)
(* AnimationMappingSystem                                                  *)
(***************************************************************************)
MinSpeed == 1     \* 0.1x in tenths
MaxSpeed == 50    \* 5.0x in tenths

AmsClips == {Clip(0), Clip(AmsClipDuration)}

AmsInit ==
    /\ amsPc = "idle"
    /\ amsLoaded = 0
    /\ ringAnimations = [r \in Rings |-> Null]
    /\ ringSampleTime = [r \in Rings |-> NoSample]
    /\ isInitialized = FALSE
    /\ globalTime = 0
    /\ isPlaying = FALSE
    /\ playbackSpeed = 10

\* initialize(): entered, first extraction awaited
initializeStart ==
    /\ amsPc = "idle"
    /\ amsPc' = "loading"
    /\ lastOp' = Op("initialize", 0)
    /\ UNCHANGED <<amsLoaded, ringAnimations, ringSampleTime, isInitialized,
                   globalTime, isPlaying, playbackSpeed>>

\* one awaited extractRingAnimation(ringId) resolves with a clip; after the
\* third ring the loop ends and isInitialized is set
initializeRingLoaded ==
    /\ amsPc = "loading"
    /\ \E clip \in AmsClips :
          ringAnimations' = [ringAnimations EXCEPT ![RingOrder[amsLoaded + 1]] = clip]
    /\ amsLoaded' = amsLoaded + 1
    /\ IF amsLoaded + 1 = Len(RingOrder)
         THEN amsPc' = "done" /\ isInitialized' = TRUE
         ELSE UNCHANGED <<amsPc, isInitialized>>
    /\ lastOp' = Op("ringLoaded", amsLoaded + 1)
    /\ UNCHANGED <<ringSampleTime, globalTime, isPlaying, playbackSpeed>>

\* one awaited extractRingAnimation(ringId) rejects: initialize() rethrows
initializeRingFailed ==
    /\ amsPc = "loading"
    /\ amsPc' = "failed"
    /\ lastOp' = Op("ringFailed", amsLoaded + 1)
    /\ UNCHANGED <<amsLoaded, ringAnimations, ringSampleTime, isInitialized,
                   globalTime, isPlaying, playbackSpeed>>

\* updateRingTransform(ringId, time): the sample time handed to
\* interpolateTransformAtTime
updateRingTransform(ringId, time) ==
    IF ~ringAnimations[ringId].present
    THEN ringSampleTime[ringId]
    ELSE SampleAt(JsMod(time, ringAnimations[ringId].duration))

updateAdvances(deltaTime) ==
    /\ globalTime' = globalTime + deltaTime * playbackSpeed
    /\ ringSampleTime' = [r \in Rings |-> updateRingTransform(r, globalTime')]

\* the early return of update()
updateReturnsEarlyNoPlayCheck == ~isInitialized
updateReturnsEarly == ~isInitialized \/ ~isPlaying

update(deltaTime) ==
    /\ IF updateReturnsEarly
         THEN UNCHANGED <<globalTime, ringSampleTime>>
         ELSE /\ globalTime + deltaTime * playbackSpeed <= MaxClock
              /\ updateAdvances(deltaTime)
    /\ lastOp' = Op("update", deltaTime)
    /\ UNCHANGED <<amsPc, amsLoaded, ringAnimations, isInitialized, isPlaying,
                   playbackSpeed>>

\* the flag play() leaves
playUnguarded == TRUE
playResult == IF isInitialized THEN TRUE ELSE isPlaying

play ==
    /\ isPlaying' = playResult
    /\ lastOp' = Op("play", 0)
    /\ UNCHANGED <<amsPc, amsLoaded, ringAnimations, ringSampleTime,
                   isInitialized, globalTime, playbackSpeed>>

pause ==
    /\ isPlaying' = FALSE
    /\ lastOp' = Op("pause", 0)
    /\ UNCHANGED <<amsPc, amsLoaded, ringAnimations, ringSampleTime,
                   isInitialized, globalTime, playbackSpeed>>

\* the clock stop() leaves
stopClockKept == globalTime
stopClock == 0

stop ==
    /\ isPlaying' = FALSE
    /\ globalTime' = stopClock
    /\ lastOp' = Op("stop", 0)
    /\ UNCHANGED <<amsPc, amsLoaded, ringAnimations, ringSampleTime,
                   isInitialized, playbackSpeed>>

\* Math.max(0.1, Math.min(5.0, speed))
clampSpeedNoUpper(speed) == Max(MinSpeed, speed)
clampSpeed(speed) == Max(MinSpeed, Min(MaxSpeed, speed))

setPlaybackSpeed(speed) ==
    /\ playbackSpeed' = clampSpeed(speed)
    /\ lastOp' = Op("setPlaybackSpeed", speed)
    /\ UNCHANGED <<amsPc, amsLoaded, ringAnimations, ringSampleTime,
                   isInitialized, globalTime, isPlaying>>

seekTo(time) ==
    /\ globalTime' = Max(0, time)
    /\ lastOp' = Op("seekTo", time)
    /\ UNCHANGED <<amsPc, amsLoaded, ringAnimations, ringSampleTime,
                   isInitialized, isPlaying, playbackSpeed>>

(***************************************************************************)
(* MultiSourceAnimationExtractor                                           *)
(***************************************************************************)
DefaultPhase1Duration == 7    \* 7.0
Phase2Duration        == 2    \* 2.0

\* What one extraction promise can resolve with: null (load error or no
\* animations) or a clip whose duration is the largest animation duration.
ExtractionResults(src) ==
    {Null} \cup
    {Clip(d) : d \in (IF src = "v6Original" THEN {0, OtherV6Duration, 7}
                      ELSE IF src = "camera" THEN {0, 5}
                      ELSE {0, RingDuration})}

\* The coarser outcomes used where the scene's playback is explored: the
\* timeline then depends on the v6 clip and on whether Phase 3 has a clip.
SceneExtractionResults(src) ==
    IF src = "v6Original" THEN ExtractionResults(src)
    ELSE IF src = "camera" THEN {Null, Clip(5)}
    ELSE {Null, Clip(RingDuration)}

ExtInit ==
    /\ extPc = "idle"
    /\ extResult = [s \in Sources |-> Null]
    /\ extSettled = [s \in Sources |-> FALSE]
    /\ animationData = [s \in Sources |-> Null]
    /\ phaseDurations = [phase1 |-> 0, phase2 |-> 2, phase3 |-> 0]
    /\ totalDuration = 0
    /\ extInitialized = FALSE

\* Phase 1: the v6 clip's duration, or the default when it is missing or 0
phase1OfNoZeroCheck(data) ==
    IF data["v6Original"].present
    THEN data["v6Original"].duration
    ELSE DefaultPhase1Duration
phase1Of(data) ==
    IF data["v6Original"].present /\ data["v6Original"].duration > 0
    THEN data["v6Original"].duration
    ELSE DefaultPhase1Duration

\* Phase 3: the largest duration among the camera clip and the ring clips
\* that loaded, starting from 0
RECURSIVE MaxDurationOver(_, _)
MaxDurationOver(data, srcs) ==
    IF srcs = {} THEN 0
    ELSE LET s == CHOOSE x \in srcs : TRUE
             rest == MaxDurationOver(data, srcs \ {s})
         IN  IF data[s].present THEN Max(rest, data[s].duration) ELSE rest

phase3Of(data) == MaxDurationOver(data, {"camera"} \cup Rings)

calculateThreePhaseDuration(data) ==
    [phase1 |-> phase1Of(data),
     phase2 |-> Phase2Duration,
     phase3 |-> phase3Of(data)]

totalOf(pd) == pd.phase1 + pd.phase2 + pd.phase3

\* getCurrentPhase(time) on the given phase durations (progress is
\* phaseTime / duration of the phase and is not stored here)
getCurrentPhaseOfStrict(pd, time) ==
    IF time < pd.phase1
    THEN [phase |-> 1, phaseTime |-> time]
    ELSE IF time < pd.phase1 + pd.phase2
    THEN [phase |-> 2, phaseTime |-> time - pd.phase1]
    ELSE [phase |-> 3, phaseTime |-> time - (pd.phase1 + pd.phase2)]
getCurrentPhaseOf(pd, time) ==
    IF time <= pd.phase1
    THEN [phase |-> 1, phaseTime |-> time]
    ELSE IF time <= pd.phase1 + pd.phase2
    THEN [phase |-> 2, phaseTime |-> time - pd.phase1]
    ELSE [phase |-> 3, phaseTime |-> time - (pd.phase1 + pd.phase2)]

getCurrentPhaseFirstOnly(time) == [phase |-> 1, phaseTime |-> time]
getCurrentPhase(time) == getCurrentPhaseOf(phaseDurations, time)

isReady == extInitialized

\* initialize(): the five extractions are started together (Promise.all)
extInitialize ==
    /\ extPc = "idle"
    /\ extPc' = "extracting"
    /\ lastOp' = Op("extInitialize", 0)
    /\ UNCHANGED <<extResult, extSettled, animationData, phaseDurations,
                   totalDuration, extInitialized>>

\* one extraction promise settles with one of `results`, in any order; a
\* failure resolves to null
extractionSettles(src, results) ==
    /\ extPc = "extracting"
    /\ ~extSettled[src]
    /\ \E r \in results : extResult' = [extResult EXCEPT ![src] = r]
    /\ extSettled' = [extSettled EXCEPT ![src] = TRUE]
    /\ lastOp' = Op("extractionSettles", 0)
    /\ UNCHANGED <<extPc, animationData, phaseDurations, totalDuration,
                   extInitialized>>

\* the continuation after Promise.all: store the clips, compute the phase
\* durations, set isInitialized
initializeComplete ==
    /\ extPc = "extracting"
    /\ \A s \in Sources : extSettled[s]
    /\ animationData' = extResult
    /\ phaseDurations' = calculateThreePhaseDuration(animationData')
    /\ totalDuration' = totalOf(phaseDurations')
    /\ extInitialized' = TRUE
    /\ extPc' = "done"
    /\ lastOp' = Op("initializeComplete", 0)
    /\ UNCHANGED <<extResult, extSettled>>

\* initialize() called again on the shared instance after an earlier call
\* has completed (nothing in initialize() stops it): five new extractions
\* are started, and isInitialized stays as it is
extInitializeAgain ==
    /\ extPc = "done"
    /\ extPc' = "extracting"
    /\ extSettled' = [s \in Sources |-> FALSE]
    /\ lastOp' = Op("extInitializeAgain", 0)
    /\ UNCHANGED <<extResult, animationData, phaseDurations, totalDuration,
                   extInitialized>>

(***************************************************************************)
(* CompleteAnimationScene                                                  *)
(***************************************************************************)
DefaultV6Duration == 10

SceneInit ==
    /\ sceneInitialized = FALSE
    /\ sceneIsPlaying = FALSE
    /\ currentTime = 0
    /\ phase1Time = 0
    /\ currentPhase = [phase |-> 1, phaseTime |-> 0]

\* initializeAnimations, after `await initialize()`: setIsInitialized(true)
sceneInitializeDone ==
    /\ extPc = "done"
    /\ ~sceneInitialized
    /\ sceneInitialized' = TRUE
    /\ lastOp' = Op("sceneInitializeDone", 0)
    /\ UNCHANGED <<sceneIsPlaying, currentTime, phase1Time, currentPhase>>

playAnimation ==
    /\ sceneIsPlaying' = (IF sceneInitialized THEN TRUE ELSE sceneIsPlaying)
    /\ lastOp' = Op("playAnimation", 0)
    /\ UNCHANGED <<sceneInitialized, currentTime, phase1Time, currentPhase>>

stopAnimation ==
    /\ sceneIsPlaying' = FALSE
    /\ currentTime' = 0
    /\ phase1Time' = 0
    /\ lastOp' = Op("stopAnimation", 0)
    /\ UNCHANGED <<sceneInitialized, currentPhase>>

pauseAnimation ==
    /\ sceneIsPlaying' = FALSE
    /\ lastOp' = Op("pauseAnimation", 0)
    /\ UNCHANGED <<sceneInitialized, currentTime, phase1Time, currentPhase>>

\* the clock value seekTo(time) stores
sceneSeekTarget(time) == time

sceneSeekTo(time) ==
    /\ currentTime' = sceneSeekTarget(time)
    /\ lastOp' = Op("sceneSeekTo", time)
    /\ UNCHANGED <<sceneInitialized, sceneIsPlaying, phase1Time, currentPhase>>

\* the looped main clock of a playing frame
normalizedTime(newTime) ==
    IF totalDuration > 0 THEN JsRem(newTime, totalDuration) ELSE 0

\* `animationData?.v6Original?.duration || 10`
v6DurationOrDefault ==
    IF animationData["v6Original"].present /\ animationData["v6Original"].duration # 0
    THEN animationData["v6Original"].duration
    ELSE DefaultV6Duration

\* the looped idle clock of a frame that is not playing
normalizedPhase1Time(newPhase1Time) ==
    IF v6DurationOrDefault > 0 THEN JsRem(newPhase1Time, v6DurationOrDefault) ELSE 0

\* useFrame callback of CompleteAnimationScene
useFrame(deltaTime) ==
    /\ IF ~sceneInitialized
         THEN UNCHANGED <<currentTime, phase1Time, currentPhase>>
         ELSE /\ IF sceneIsPlaying
                   THEN /\ currentTime' = normalizedTime(currentTime + deltaTime)
                        /\ UNCHANGED phase1Time
                   ELSE /\ phase1Time' = normalizedPhase1Time(phase1Time + deltaTime)
                        /\ UNCHANGED currentTime
              /\ IF isReady
                   THEN currentPhase' = getCurrentPhase(currentTime)
                   ELSE UNCHANGED currentPhase
    /\ lastOp' = Querying("useFrame", deltaTime, sceneInitialized /\ isReady)
    /\ UNCHANGED <<sceneInitialized, sceneIsPlaying>>

\* what an object was last set from: nothing yet, the fixed Phase-1 view,
\* or the timeline's transforms at a time
NoView == [set |-> FALSE, phase |-> 0, time |-> 0]
View(phase, time) == [set |-> TRUE, phase |-> phase, time |-> time]

ViewInit ==
    /\ cameraView = NoView
    /\ ringsView = NoView

\* the guard both updaters start with
updaterReturnsAlways == FALSE
updaterReturns == ~isReady

\* useFrame callback of AnimatedCamera: the fixed view in Phase 1, else
\* getCameraTransformAtTime(currentTime)
cameraFrame ==
    /\ IF updaterReturns
         THEN /\ UNCHANGED cameraView
              /\ lastOp' = Querying("cameraFrame", 0, FALSE)
         ELSE /\ cameraView' =
                    (LET cameraPhase == getCurrentPhase(currentTime)
                     IN  IF cameraPhase.phase = 1 THEN View(1, 0)
                         ELSE View(cameraPhase.phase, currentTime))
              /\ lastOp' = Querying("cameraFrame", 0, TRUE)
    /\ UNCHANGED <<sceneVars, ringsView>>

\* useFrame callback of AnimatedRings: nothing unless playing or in
\* Phase 1, else getAllTransformsAtTime(timeToUse)
ringsFrame ==
    /\ IF updaterReturns
         THEN /\ UNCHANGED ringsView
              /\ lastOp' = Querying("ringsFrame", 0, FALSE)
         ELSE LET phaseInfo     == getCurrentPhase(currentTime)
                  shouldAnimate == sceneIsPlaying \/ phaseInfo.phase = 1
                  timeToUse     == IF ~sceneIsPlaying /\ phaseInfo.phase = 1
                                   THEN phase1Time ELSE currentTime
              IN  /\ ringsView' =
                         (IF shouldAnimate
                          THEN View(getCurrentPhase(timeToUse).phase, timeToUse)
                          ELSE ringsView)
                  /\ lastOp' = Querying("ringsFrame", 0, TRUE)
    /\ UNCHANGED <<sceneVars, cameraView>>

(***************************************************************************)
(* End adjustment of the frame updaters (AnimatedCamera, AnimatedRings)    *)
(*                                                                         *)
(* Times are in tenths of a second, so that the 1.5 s window is a whole    *)
(* number.  A factor f in [0, 1] is kept as the integer f * EaseDen.       *)
(***************************************************************************)
adjustDuration == 15                          \* const adjustDuration = 1.5
EaseDen == 2 * adjustDuration * adjustDuration * adjustDuration

ScenarioTimeline == [phase1 |-> 70, phase2 |-> 20, phase3 |-> 50]
FxTimelines ==
    {[phase1 |-> p1, phase2 |-> 20, phase3 |-> p3] :
        p1 \in {30, 70}, p3 \in {0, ShortPhase3, 50}}
FxTimes == 0..MaxFxTime
\* values of phase1Time: below the v6 clip's duration, or below the 10 s
\* default when the clip is missing (Phase 1 is then 7 s long)
FxIdleTimes(pd) == IF pd.phase1 = 70 THEN {0, 95} ELSE {0, 25}

NoFactor  == [ran |-> FALSE, num |-> 0]
Factor(n) == [ran |-> TRUE, num |-> n]
NoFrame   == [currentTime |-> 0, isPlaying |-> FALSE, phase1Time |-> 0]

\* adjustFactor = isInEndAdjustment
\*    ? Math.min(1, (currentTime - endAdjustStartTime) / adjustDuration) : 0
\* as a number of adjustDuration-ths
adjustFactor(total, time) ==
    LET endAdjustStartTime == total - adjustDuration
        isInEndAdjustment  == time >= endAdjustStartTime
    IN  IF isInEndAdjustment
        THEN Min(adjustDuration, time - endAdjustStartTime)
        ELSE 0

\* easeInOutCubic(t) = t < 0.5 ? 4 t^3 : 1 - (-2 t + 2)^3 / 2, at
\* t = a / adjustDuration, times EaseDen
easeInOutCubicEaseInOnly(a) == 8 * a * a * a
easeInOutCubic(a) ==
    IF 2 * a < adjustDuration
    THEN 8 * a * a * a
    ELSE LET b == 2 * adjustDuration - 2 * a IN EaseDen - b * b * b

\* AnimatedCamera: smoothFactor stays 0 unless getCurrentPhase(currentTime)
\* is Phase 3
cameraSmoothFactorAnyPhase(pd, time) ==
    easeInOutCubic(adjustFactor(totalOf(pd), time))
cameraSmoothFactor(pd, time) ==
    IF getCurrentPhaseOf(pd, time).phase = 3
    THEN easeInOutCubic(adjustFactor(totalOf(pd), time))
    ELSE 0

\* AnimatedRings: nothing is done unless playing or in Phase 1; the phase
\* that gates the factor is the one of timeToUse, the factor is computed
\* from currentTime
ringsSmoothFactor(pd, playing, time, idleTime) ==
    LET phaseInfo     == getCurrentPhaseOf(pd, time)
        shouldAnimate == playing \/ phaseInfo.phase = 1
        timeToUse     == IF ~playing /\ phaseInfo.phase = 1
                         THEN idleTime ELSE time
        transformsPhase == getCurrentPhaseOf(pd, timeToUse)
    IN  IF ~shouldAnimate THEN NoFactor
        ELSE IF transformsPhase.phase = 3
        THEN Factor(easeInOutCubic(adjustFactor(totalOf(pd), time)))
        ELSE Factor(0)

AdjustInitOn(pd) ==
    /\ fxTimeline = pd
    /\ fxFrame = NoFrame
    /\ cameraSmooth = NoFactor
    /\ ringsSmooth = NoFactor

\* one frame: both updaters run with the props of the same render
frameAdjust(time, playing, idleTime) ==
    /\ fxFrame' = [currentTime |-> time, isPlaying |-> playing,
                   phase1Time |-> idleTime]
    /\ cameraSmooth' = Factor(cameraSmoothFactor(fxTimeline, time))
    /\ ringsSmooth' = ringsSmoothFactor(fxTimeline, playing, time, idleTime)
    /\ lastOp' = Op("frameAdjust", time)
    /\ UNCHANGED fxTimeline

(***************************************************************************)
(* Keyframe sampling: interpolateProperty and the looping samplers         *)
(*                                                                         *)
(* Keyframe and query times are in half seconds.  A sampled component is   *)
(* an exact fraction [num, den] in lowest terms with den > 0.              *)
(***************************************************************************)
RECURSIVE GCD(_, _)
GCD(a, b) == IF b = 0 THEN a ELSE GCD(b, a % b)
Abs(n)    == IF n >= 0 THEN n ELSE 0 - n
Rat(n, d) == LET g == GCD(Abs(n), d)
             IN  [num |-> n \div g, den |-> d \div g]
Whole(n)  == [num |-> n, den |-> 1]
\* n / d in JavaScript for d >= 0: NaN (0/0) and the infinities have den 0
JsQuot(n, d) ==
    IF d # 0 THEN Rat(n, d)
    ELSE [num |-> (IF n > 0 THEN 1 ELSE IF n < 0 THEN 0 - 1 ELSE 0), den |-> 0]

\* an {x, y, z}, {x, y, z, w} or {value} result
Value(cs) == [slerp |-> FALSE, comps |-> cs, factor |-> Whole(0)]
\* new THREE.Quaternion().slerpQuaternions(q1, q2, factor): q1 at factor 0,
\* q2 at factor 1, otherwise the quaternion on the arc through q1 and q2
\* that the factor names (no clamping of the factor)
slerpQuaternions(q1, q2, factor) ==
    IF factor = Whole(0) \/ q1 = q2 THEN Value(q1)
    ELSE IF factor = Whole(1) THEN Value(q2)
    ELSE [slerp |-> TRUE, comps |-> q1 \o q2, factor |-> factor]
NoValue == [slerp |-> FALSE, comps |-> <<>>, factor |-> Whole(0)]

\* strictly increasing keyframe times, as a glTF sampler has them
KeyTimes ==
    {ts \in UNION {[1..n -> 0..MaxKeyTime] : n \in 0..MaxKeys} :
        \A i \in 1..(Len(ts) - 1) : ts[i] < ts[i + 1]}
KeyValues(componentCount) ==
    IF componentCount = 4 THEN {<<0, 0, 0, 1>>, <<1, 0, 0, 0>>}
    ELSE IF componentCount = 1 THEN {<<0>>, <<10>>, <<-3>>}
    ELSE {<<0, 0, 0>>, <<10, 0, 0>>, <<-4, 6, 2>>}
\* the flat values array of the keyframe values kv
Flatten(kv, componentCount) ==
    [j \in 1..(Len(kv) * componentCount) |->
        kv[((j - 1) \div componentCount) + 1][((j - 1) % componentCount) + 1]]
Tracks ==
    {[times |-> ts, values |-> Flatten(kv, cc), componentCount |-> cc] :
        <<ts, kv, cc>> \in
            {x \in UNION {KeyTimes \X [1..n -> KeyValues(cc)] \X {cc} :
                              n \in 0..MaxKeys, cc \in {1, 3, 4}} :
                Len(x[1]) = Len(x[2])}}
QueryTimes == (0 - MinQuery)..MaxQuery

\* keyframe times that only never decrease: equal adjacent times allowed
NonDecreasingKeyTimes ==
    {ts \in UNION {[1..n -> 0..MaxKeyTime] : n \in 0..MaxKeys} :
        \A i \in 1..(Len(ts) - 1) : ts[i] <= ts[i + 1]}
RepeatedKeyTracks ==
    {[times |-> ts, values |-> Flatten(kv, cc), componentCount |-> cc] :
        <<ts, kv, cc>> \in
            {x \in UNION {NonDecreasingKeyTimes \X [1..n -> KeyValues(cc)] \X {cc} :
                              n \in 0..MaxKeys, cc \in {1, 3, 4}} :
                Len(x[1]) = Len(x[2])}}

\* values[startIndex .. startIndex + componentCount - 1] of keyframe
\* `index` (counted from 1)
keyframeAt(values, index, componentCount) ==
    [c \in 1..componentCount |->
        Whole(values[(index - 1) * componentCount + c])]

\* values[startIndex] + (values[endIndex] - values[startIndex]) * factor
\* with factor = (time - t1) / (t2 - t1)
lerpFromStart(v1, v2, time, t1, t2) ==
    Rat(v1 * (t2 - t1) + (v2 - v1) * time, t2 - t1)
lerp(v1, v2, time, t1, t2) ==
    IF t2 # t1
    THEN Rat(v1 * (t2 - t1) + (v2 - v1) * (time - t1), t2 - t1)
    ELSE JsQuot((v2 - v1) * (time - t1), 0)

\* the neutral value returned for a track without keyframes
neutralValueVectorOnly(componentCount) ==
    Value(<<Whole(0), Whole(0), Whole(0)>>)
neutralValue(componentCount) ==
    IF componentCount = 4
    THEN Value(<<Whole(0), Whole(0), Whole(0), Whole(1)>>)
    ELSE IF componentCount = 1 THEN Value(<<Whole(0)>>)
    ELSE Value(<<Whole(0), Whole(0), Whole(0)>>)

\* the index (counted from 1) the search loop and the two boundary tests
\* leave: the first bracketing interval, 1 at or before the first keyframe,
\* the last keyframe at or after it
findIndex(times, time) ==
    LET n    == Len(times)
        hits == {i \in 1..(n - 1) : time >= times[i] /\ time <= times[i + 1]}
        loop == IF hits = {} THEN 1
                ELSE CHOOSE i \in hits : \A j \in hits : i <= j
        low  == IF time <= times[1] THEN 1 ELSE loop
    IN  IF time >= times[n] THEN n ELSE low

\* MultiSourceAnimationExtractor.interpolateProperty(track, time, componentCount)
interpolateProperty(track, time, componentCount) ==
    LET times  == track.times
        values == track.values
        n      == Len(times)
    IN  IF n = 0 THEN neutralValue(componentCount)
        ELSE LET index == findIndex(times, time) IN
             IF index = n \/ n = 1
             THEN Value(keyframeAt(values, index, componentCount))
             ELSE LET t1 == times[index]
                      t2 == times[index + 1]
                      startIndex == (index - 1) * componentCount
                      endIndex   == index * componentCount
                  IN  IF componentCount = 4
                      THEN slerpQuaternions(
                               [c \in 1..4 |-> Whole(values[startIndex + c])],
                               [c \in 1..4 |-> Whole(values[endIndex + c])],
                               JsQuot(time - t1, t2 - t1))
                      ELSE Value([c \in 1..componentCount |->
                               lerp(values[startIndex + c],
                                    values[endIndex + c], time, t1, t2)])

\* AnimationExtractor.interpolateProperty: the same search (its second
\* boundary test is an else-branch of the first) without the scalar case;
\* its callers pass 3 or 4 components
interpolatePropertyAE(track, time, componentCount) ==
    LET times  == track.times
        values == track.values
        n      == Len(times)
    IN  IF n = 0
        THEN (IF componentCount = 4
              THEN Value(<<Whole(0), Whole(0), Whole(0), Whole(1)>>)
              ELSE Value(<<Whole(0), Whole(0), Whole(0)>>))
        ELSE LET hits == {i \in 1..(n - 1) :
                             time >= times[i] /\ time <= times[i + 1]}
                 loop == IF hits = {} THEN 1
                         ELSE CHOOSE i \in hits : \A j \in hits : i <= j
                 index == IF time <= times[1] THEN 1
                          ELSE IF time >= times[n] THEN n ELSE loop
             IN
             IF index = n \/ n = 1
             THEN Value(keyframeAt(values, index, componentCount))
             ELSE LET t1 == times[index]
                      t2 == times[index + 1]
                      startIndex == (index - 1) * componentCount
                      endIndex   == index * componentCount
                  IN  IF componentCount = 4
                      THEN slerpQuaternions(
                               [c \in 1..4 |-> Whole(values[startIndex + c])],
                               [c \in 1..4 |-> Whole(values[endIndex + c])],
                               JsQuot(time - t1, t2 - t1))
                      ELSE Value([c \in 1..3 |->
                               lerp(values[startIndex + c],
                                    values[endIndex + c], time, t1, t2)])

\* getRingTransformAtTime of the single-clip extractor, for the one track
\* of the clip: normalizedTime = time % duration, then interpolateProperty.
\* getV6OriginalRingTransformAtTime and the Phase-3 branch of the
\* three-phase getRingTransformAtTime do the same with the phase-local time.
getRingTransformAtTime(ringData, time) ==
    LET normalized == JsRem(time, ringData.duration)
    IN  interpolateProperty(ringData.track, normalized,
                            ringData.track.componentCount)

\* AnimationMappingSystem.updateRingTransform: time % duration, then
\* interpolateTransformAtTime, which clamps the time into [0, duration]
interpolateTransformAtTime(extractedTracks, time) ==
    LET clamped == Max(0, Min(time, extractedTracks.duration))
    IN  interpolatePropertyAE(extractedTracks.track, clamped,
                              extractedTracks.track.componentCount)
updateRingTransformAtTime(animationClip, time) ==
    interpolateTransformAtTime(animationClip,
                               JsRem(time, animationClip.duration))

SamplerInitOn(c) ==
    /\ sampledClip = c
    /\ sampled = [time |-> 0, value |-> NoValue]

IdleClip == [duration |-> LoopDuration,
             track |-> [times |-> <<>>, values |-> <<>>, componentCount |-> 3]]

\* a direct query of a track
sampleTrack(time) ==
    /\ sampled' = [time |-> time,
                   value |-> interpolateProperty(sampledClip.track, time,
                                                 sampledClip.track.componentCount)]
    /\ lastOp' = Op("interpolateProperty", time)
    /\ UNCHANGED sampledClip

\* the same query through AnimationExtractor (vector and quaternion tracks)
sampleTrackAE(time) ==
    /\ sampledClip.track.componentCount # 1
    /\ sampled' = [time |-> time,
                   value |-> interpolatePropertyAE(sampledClip.track, time,
                                                   sampledClip.track.componentCount)]
    /\ lastOp' = Op("interpolatePropertyAE", time)
    /\ UNCHANGED sampledClip

\* a query of the looping ring sampledClip (ring clips have no scalar track)
sampleRing(time) ==
    /\ sampledClip.track.componentCount # 1
    /\ sampled' = [time |-> time,
                   value |-> getRingTransformAtTime(sampledClip, time)]
    /\ lastOp' = Op("getRingTransformAtTime", time)
    /\ UNCHANGED sampledClip

\* the AnimationMappingSystem's query of a ring sampledClip
sampleRingAms(time) ==
    /\ sampledClip.track.componentCount # 1
    /\ sampled' = [time |-> time,
                   value |-> updateRingTransformAtTime(sampledClip, time)]
    /\ lastOp' = Op("updateRingTransform", time)
    /\ UNCHANGED sampledClip

(***************************************************************************)
(* Extraction of ring clips: AnimationExtractor.extractRingAnimation with  *)
(* its cache, and MultiSourceAnimationExtractor.extractRingAnimation       *)
(***************************************************************************)
\* ANIMATION_MAPPING and SCENES_B_SOURCES of ring-mapping-config
getAnimationMapping(ringId) ==
    CASE ringId = "ring1" -> [source |-> "scenes_b_00100",
                              sourceObject |-> "Scenes_B_00100"]
      [] ringId = "ring2" -> [source |-> "scenes_b_0023",
                              sourceObject |-> "Scenes_B_0023"]
      [] ringId = "ring3" -> [source |-> "scenes_b_00100_001",
                              sourceObject |-> "Scenes_B_00100001"]
GltfSources == {getAnimationMapping(r).source : r \in Rings}
cacheKey(ringId) ==
    <<getAnimationMapping(ringId).source,
      getAnimationMapping(ringId).sourceObject>>
CacheKeys == {cacheKey(r) : r \in Rings}

Track(node, property) == [node |-> node, property |-> property]
Animation(d, tracks)  == [duration |-> d, tracks |-> tracks]
\* what a source's GLTF may hold for the object that is looked for
GltfChoices(objectName) ==
    { <<>>,
      <<Animation(0, <<>>)>>,
      <<Animation(OtherDuration, <<Track("Camera", "position")>>)>>,
      <<Animation(RingDuration, <<Track(objectName, "position"),
                                  Track(objectName, "quaternion")>>)>>,
      <<Animation(OtherDuration, <<Track("Camera", "position")>>),
        Animation(RingDuration, <<Track(objectName, "rotation"),
                                  Track(objectName, "scale")>>)>> }

\* the outcome of an extraction request
NoClip   == [kind |-> "none", position |-> FALSE, rotation |-> "none",
             scale |-> FALSE, duration |-> 0, trackCount |-> 0]
NullClip == [NoClip EXCEPT !.kind = "null"]
Returned(via, c) == [via |-> via, clip |-> c]

RECURSIVE AllTracks(_)
AllTracks(animations) ==
    IF animations = <<>> THEN <<>>
    ELSE Head(animations).tracks \o AllTracks(Tail(animations))
RECURSIVE maxDuration(_)
maxDuration(animations) ==
    IF animations = <<>> THEN 0
    ELSE Max(Head(animations).duration, maxDuration(Tail(animations)))

\* extractObjectAnimationTracks(animations, objectName): the duration is
\* raised by every animation, the tracks are taken from those named after
\* the object (a later track of a property replaces an earlier one)
extractObjectAnimationTracks(animations, objectName) ==
    LET IsTarget(t)   == t.node = objectName
        IsRotation(t) == t.property \in {"rotation", "quaternion"}
        matched   == SelectSeq(AllTracks(animations), IsTarget)
        rotations == SelectSeq(matched, IsRotation)
    IN  [kind |-> "clip",
         position |-> \E i \in 1..Len(matched) : matched[i].property = "position",
         rotation |-> IF rotations = <<>> THEN "none"
                      ELSE rotations[Len(rotations)].property,
         scale |-> \E i \in 1..Len(matched) : matched[i].property = "scale",
         duration |-> maxDuration(animations),
         trackCount |-> Len(matched)]

\* the body of MultiSourceAnimationExtractor.extractRingAnimation after a
\* successful load: null without animations, else the same scan
extractRingAnimationOf(animations, objectName) ==
    IF Len(animations) = 0 THEN NullClip
    ELSE extractObjectAnimationTracks(animations, objectName)

cacheHasNever(key) == FALSE
cacheHas(key) == animationCache[key].kind # "none"

ExtractionInitOn(gltf) ==
    /\ gltfAnimations = gltf
    /\ animationCache = [k \in CacheKeys |-> NoClip]
    /\ scanCount = [k \in CacheKeys |-> 0]
    /\ returned = Returned("none", NoClip)

NoGltf == [src \in GltfSources |-> <<>>]
Gltfs ==
    {g \in [GltfSources -> UNION {GltfChoices(getAnimationMapping(r).sourceObject)
                                    : r \in Rings}] :
        \A r \in Rings :
            g[getAnimationMapping(r).source]
                \in GltfChoices(getAnimationMapping(r).sourceObject)}

\* AnimationExtractor.extractRingAnimation(ringId), the model loads: the
\* cached clip if there is one, else scan, store and return
extractRingAnimation(ringId) ==
    LET mapping == getAnimationMapping(ringId)
        key     == cacheKey(ringId)
    IN  IF cacheHas(key)
        THEN /\ returned' = Returned("cache", animationCache[key])
             /\ lastOp' = Op("extractRingAnimation", ringId)
             /\ UNCHANGED <<gltfAnimations, animationCache, scanCount>>
        ELSE /\ scanCount[key] < MaxScans
             /\ LET extractedData ==
                      extractObjectAnimationTracks(
                          gltfAnimations[mapping.source], mapping.sourceObject)
                IN  /\ animationCache' =
                           [animationCache EXCEPT ![key] = extractedData]
                    /\ returned' = Returned("scan", extractedData)
             /\ scanCount' = [scanCount EXCEPT ![key] = @ + 1]
             /\ lastOp' = Op("extractRingAnimation", ringId)
             /\ UNCHANGED gltfAnimations

\* AnimationExtractor.extractRingAnimation(ringId), the model cannot be
\* loaded: useGLTF throws, the error is logged and thrown again
extractRingAnimationThrows(ringId) ==
    /\ ~cacheHas(cacheKey(ringId))
    /\ returned' = Returned("error", NoClip)
    /\ lastOp' = Op("extractRingAnimationThrows", ringId)
    /\ UNCHANGED <<gltfAnimations, animationCache, scanCount>>

\* MultiSourceAnimationExtractor.extractRingAnimation(ringId, modelPath,
\* objectName) with the model loaded (no cache)
multiExtractRingAnimation(ringId) ==
    LET mapping == getAnimationMapping(ringId)
    IN  /\ returned' = Returned("scan",
                           extractRingAnimationOf(
                               gltfAnimations[mapping.source],
                               mapping.sourceObject))
        /\ lastOp' = Op("multiExtractRingAnimation", ringId)
        /\ UNCHANGED <<gltfAnimations, animationCache, scanCount>>

\* the same with a load that fails: the error is caught, null is returned
multiExtractRingAnimationFails(ringId) ==
    /\ returned' = Returned("error", NullClip)
    /\ lastOp' = Op("multiExtractRingAnimationFails", ringId)
    /\ UNCHANGED <<gltfAnimations, animationCache, scanCount>>

(***************************************************************************)
(* getCurrentPhase(time).progress                                          *)
(***************************************************************************)
\* JavaScript a / b for b >= 0: an exact fraction, or Infinity, -Infinity
\* or NaN when b is 0
JsDiv(a, b) ==
    IF b # 0 THEN [kind |-> "finite", value |-> Rat(a, b)]
    ELSE IF a > 0 THEN [kind |-> "Infinity", value |-> Whole(0)]
    ELSE IF a < 0 THEN [kind |-> "-Infinity", value |-> Whole(0)]
    ELSE [kind |-> "NaN", value |-> Whole(0)]

\* progress: phaseTime / duration of the resolved phase
progressOf(pd, time) ==
    LET r == getCurrentPhaseOf(pd, time)
        d == IF r.phase = 1 THEN pd.phase1
             ELSE IF r.phase = 2 THEN pd.phase2 ELSE pd.phase3
    IN  JsDiv(r.phaseTime, d)

(***************************************************************************)
(* AnimationMappingSystem: base transform composed with the animated one   *)
(*                                                                         *)
(* Times are in half seconds, components exact fractions.                  *)
(***************************************************************************)
RatAdd(a, b) == Rat(a.num * b.den + b.num * a.den, a.den * b.den)
RatMul(a, b) == Rat(a.num * b.num, a.den * b.den)

\* V6_RINGS_CONFIG: the static position and scale of each ring
V6_RINGS_CONFIG(ringId) ==
    IF ringId = "ring1"
    THEN [position |-> <<Rat(609, 1000), Rat(14249, 1000), Rat(-5731, 1000)>>,
          scale    |-> <<Rat(26, 1000)>>]
    ELSE IF ringId = "ring2"
    THEN [position |-> <<Rat(11171, 1000), Rat(3182, 1000), Rat(11142, 1000)>>,
          scale    |-> <<Rat(39, 1000)>>]
    ELSE [position |-> <<Rat(609, 1000), Rat(7, 10), Rat(6831, 1000)>>,
          scale    |-> <<Rat(26, 1000), Rat(26, 1000), Rat(16, 1000)>>]
getRingConfig(ringId) == V6_RINGS_CONFIG(ringId)

\* initializeRingTransforms: basePosition and baseScale (a scalar scale is
\* spread over the three axes)
initializeRingTransforms(ringId) ==
    LET config == V6_RINGS_CONFIG(ringId)
    IN  [basePosition |-> config.position,
         baseScale    |-> IF Len(config.scale) = 3 THEN config.scale
                          ELSE <<config.scale[1], config.scale[1],
                                 config.scale[1]>>]

\* a track that the clip does not have
NoTrack == [times |-> <<>>, values |-> <<>>, componentCount |-> 0]
\* position and scale tracks of a ring clip: none, or keyframes at the
\* start and the end of the clip
ComposeTracks ==
    {NoTrack} \cup
    {t \in Tracks : /\ t.componentCount = 3
                    /\ t.times \in {<<>>, <<0, LoopDuration>>}}
ComposeClips ==
    {[duration |-> LoopDuration, position |-> p, scale |-> sc] :
        p \in ComposeTracks, sc \in ComposeTracks}
ComposeTimes == 0..MaxQuery

\* AnimationExtractor.interpolateTransformAtTime for the position and the
\* scale of a clip: the defaults where the clip has no such track
interpolateTransformOf(extractedTracks, time) ==
    LET clamped == Max(0, Min(time, extractedTracks.duration))
    IN  [position |->
            IF extractedTracks.position # NoTrack
            THEN interpolatePropertyAE(extractedTracks.position, clamped, 3).comps
            ELSE <<Whole(0), Whole(0), Whole(0)>>,
         scale |->
            IF extractedTracks.scale # NoTrack
            THEN interpolatePropertyAE(extractedTracks.scale, clamped, 3).comps
            ELSE <<Whole(1), Whole(1), Whole(1)>>]

\* combineTransforms(transform): finalPosition and finalScale
combineTransforms(transform) ==
    [position |-> [c \in 1..3 |-> RatAdd(transform.basePosition[c],
                                         transform.animatedPosition[c])],
     scale    |-> [c \in 1..3 |-> RatMul(transform.baseScale[c],
                                         transform.animatedScale[c])]]

\* what updateRingTransform(ringId, time) leaves in finalPosition/finalScale
updateRingTransformFinal(ringClip, ringId, time) ==
    LET normalized        == JsRem(time, ringClip.duration)
        animated          == interpolateTransformOf(ringClip, normalized)
        transform         == initializeRingTransforms(ringId)
    IN  combineTransforms([basePosition     |-> transform.basePosition,
                           baseScale        |-> transform.baseScale,
                           animatedPosition |-> animated.position,
                           animatedScale    |-> animated.scale])

\* generateTransformAtTime(ringId, time)
generateTransformAtTime(ringClip, ringId, time) ==
    LET baseConfig        == getRingConfig(ringId)
        normalized        == JsRem(time, ringClip.duration)
        animated          == interpolateTransformOf(ringClip, normalized)
    IN  [position |-> [c \in 1..3 |-> RatAdd(baseConfig.position[c],
                                             animated.position[c])],
         scale    |-> animated.scale]

NoComposed == [via |-> "none", ring |-> "ring1", time |-> 0,
               position |-> <<>>, scale |-> <<>>]
Composed(via, ringId, time, t) ==
    [via |-> via, ring |-> ringId, time |-> time,
     position |-> t.position, scale |-> t.scale]

ComposeInitOn(c) ==
    /\ composeClip = c
    /\ composed = NoComposed
NoComposeClip == [duration |-> LoopDuration, position |-> NoTrack,
                  scale |-> NoTrack]
ComposeIdle == ComposeInitOn(NoComposeClip)

\* a tick's update of one ring, read back through its final transform
composeTick(ringId, time) ==
    /\ composed' = Composed("combineTransforms", ringId, time,
                            updateRingTransformFinal(composeClip, ringId, time))
    /\ lastOp' = Op("updateRingTransform", time)
    /\ UNCHANGED composeClip

\* a precomputed transform of one ring
composeAt(ringId, time) ==
    /\ composed' = Composed("generateTransformAtTime", ringId, time,
                            generateTransformAtTime(composeClip, ringId, time))
    /\ lastOp' = Op("generateTransformAtTime", time)
    /\ UNCHANGED composeClip

(***************************************************************************)
(* One ring through the three phases: getRingTransformAtTime of the        *)
(* three-phase extractor and the ring update of AnimatedRings              *)
(*                                                                         *)
(* Times are in seconds.  A ring's data is its position track.             *)
(***************************************************************************)
\* a component computed from NaN
NaNRat == [num |-> 0, den |-> 0]

\* interpolateProperty at time NaN: every comparison with the time is
\* false, so the index stays at the first keyframe and the factor is NaN
interpolatePropertyNaN(track, componentCount) ==
    LET n == Len(track.times)
    IN  IF n = 0 THEN neutralValue(componentCount)
        ELSE IF n = 1 THEN Value(keyframeAt(track.values, 1, componentCount))
        ELSE Value([c \in 1..componentCount |-> NaNRat])
interpolatePropertyAt(track, t, componentCount) ==
    IF t.nan THEN interpolatePropertyNaN(track, componentCount)
    ELSE interpolateProperty(track, t.v, componentCount)

\* the position track of a ring in a clip of the given duration: keyframes
\* at the start and the end of the clip
RingTracks(d) ==
    {t \in Tracks : /\ t.componentCount = 3
                    /\ t.times = (IF d = 0 THEN <<0>> ELSE <<0, d>>)}
NoRingData == [present |-> FALSE, duration |-> 0, track |-> NoTrack]
RingData(d, tr) == [present |-> TRUE, duration |-> d, track |-> tr]
\* animationData.v6Original: null, or a clip whose rings entry for the ring
\* has no position track (NoTrack) or has one; animationData.rings[ringId]:
\* null or a clip
V6Datas ==
    {NoRingData} \cup
    {RingData(d, tr) : <<d, tr>> \in
        {x \in {0, OtherV6Duration} \X ({NoTrack} \cup Tracks) :
            x[2] = NoTrack \/ x[2] \in RingTracks(x[1])}}
RingDatas ==
    {NoRingData} \cup
    {RingData(d, tr) : <<d, tr>> \in
        {x \in {0, RingDuration} \X Tracks : x[2] \in RingTracks(x[1])}}
PhaseScenarios ==
    {[v6 |-> v, ring |-> r, camera |-> cam] :
        v \in V6Datas, r \in RingDatas, cam \in SceneExtractionResults("camera")}
FrameTimes == 0..MaxFrameTime
IdleTimes  == 0..MaxIdleTime

\* the clips calculateThreePhaseDuration sees (the other rings absent)
clipsOf(sc) ==
    [s \in Sources |->
        IF s = "v6Original"
        THEN (IF sc.v6.present THEN Clip(sc.v6.duration) ELSE Null)
        ELSE IF s = "camera" THEN sc.camera
        ELSE IF s = "ring1"
        THEN (IF sc.ring.present THEN Clip(sc.ring.duration) ELSE Null)
        ELSE Null]
phaseDurationsOf(sc) == calculateThreePhaseDuration(clipsOf(sc))

\* what a ring query returns: null or a transform, and the normalized time
\* it handed to interpolateProperty
NullTransform == [present |-> FALSE, position |-> <<>>]
Transform(v)  == [present |-> TRUE, position |-> v.comps]
Answer(result, passed) == [result |-> result, passed |-> passed]

getV6OriginalRingTransformAtTime(v6Original, time) ==
    IF ~v6Original.present THEN Answer(NullTransform, NoSample)
    ELSE LET normalized == JsMod(time, v6Original.duration)
         IN  IF v6Original.track = NoTrack
             THEN Answer(Transform(Value(<<Whole(0), Whole(0), Whole(0)>>)),
                         NoSample)
             ELSE Answer(Transform(interpolatePropertyAt(v6Original.track,
                                                         normalized, 3)),
                         SampleAt(normalized))

\* Phase 2 asks for the v6 clip at its own duration
phase2Time(v6Original) ==
    IF v6Original.present THEN v6Original.duration ELSE 0

\* getRingTransformAtTime(ringId, time) of the three-phase extractor
getRingTransformAtTimeThreePhase(sc, time) ==
    LET cp == getCurrentPhaseOf(phaseDurationsOf(sc), time)
    IN  IF cp.phase = 1
        THEN getV6OriginalRingTransformAtTime(sc.v6, cp.phaseTime)
        ELSE IF cp.phase = 2
        THEN getV6OriginalRingTransformAtTime(sc.v6, phase2Time(sc.v6))
        ELSE IF ~sc.ring.present THEN Answer(NullTransform, NoSample)
        ELSE LET normalized == JsMod(cp.phaseTime, sc.ring.duration)
             IN  Answer(Transform(interpolatePropertyAt(sc.ring.track,
                                                        normalized, 3)),
                        SampleAt(normalized))

\* the group object's position from its JSX props
BasePose == V6_RINGS_CONFIG("ring1").position
NoQuery == [asked |-> FALSE, currentTime |-> 0, isPlaying |-> FALSE,
            time |-> 0, answer |-> Answer(NullTransform, NoSample)]

PhaseRingInitOn(sc) ==
    /\ phaseScenario = sc
    /\ ringPose = BasePose
    /\ ringQuery = NoQuery
NoScenario == [v6 |-> NoRingData, ring |-> NoRingData, camera |-> Null]
PhaseRingIdle == PhaseRingInitOn(NoScenario)

\* the useFrame callback of AnimatedRings for ring1, once the extractor is
\* ready: the ring is moved only when its transform is not null
ringFrame(time, playing, idleTime) ==
    LET phaseInfo     == getCurrentPhaseOf(phaseDurationsOf(phaseScenario), time)
        shouldAnimate == playing \/ phaseInfo.phase = 1
        timeToUse     == IF ~playing /\ phaseInfo.phase = 1 THEN idleTime
                         ELSE time
        t             == getRingTransformAtTimeThreePhase(phaseScenario,
                                                          timeToUse)
    IN  /\ IF shouldAnimate
             THEN /\ ringQuery' = [asked |-> TRUE, currentTime |-> time,
                                   isPlaying |-> playing, time |-> timeToUse,
                                   answer |-> t]
                  /\ ringPose' = (IF t.result.present THEN t.result.position
                                  ELSE ringPose)
             ELSE /\ ringQuery' = [NoQuery EXCEPT !.currentTime = time]
                  /\ UNCHANGED ringPose
        /\ lastOp' = Op("ringFrame", time)
        /\ UNCHANGED phaseScenario

(***************************************************************************)
(* App: the Play / Pause / Stop buttons over CompleteAnimationScene        *)
(***************************************************************************)
HostInit ==
    /\ appIsPlaying = FALSE
    /\ appCurrentTime = 0

\* sceneRef.current is set once the scene has mounted; its mount effect is
\* what starts the extractor's initialize()
sceneRefSet == extPc # "idle"

\* handlePlay: playAnimation() of the scene (which sets its flag and calls
\* onPlayingChange(true) only when initialized), then setIsPlaying(true)
handlePlay ==
    /\ IF sceneRefSet
         THEN /\ sceneIsPlaying' =
                    (IF sceneInitialized THEN TRUE ELSE sceneIsPlaying)
              /\ appIsPlaying' = TRUE
         ELSE UNCHANGED <<sceneIsPlaying, appIsPlaying>>
    /\ lastOp' = Op("handlePlay", 0)
    /\ UNCHANGED <<sceneInitialized, currentTime, phase1Time, currentPhase,
                   appCurrentTime>>

\* handleStop: stopAnimation() of the scene, then setIsPlaying(false) and
\* setCurrentTime(0)
handleStop ==
    /\ IF sceneRefSet
         THEN /\ sceneIsPlaying' = FALSE
              /\ currentTime' = 0
              /\ phase1Time' = 0
              /\ appIsPlaying' = FALSE
              /\ appCurrentTime' = 0
         ELSE UNCHANGED <<sceneIsPlaying, currentTime, phase1Time,
                          appIsPlaying, appCurrentTime>>
    /\ lastOp' = Op("handleStop", 0)
    /\ UNCHANGED <<sceneInitialized, currentPhase>>

\* handlePause: pauseAnimation() of the scene, then setIsPlaying(false)
handlePause ==
    /\ IF sceneRefSet
         THEN /\ sceneIsPlaying' = FALSE
              /\ appIsPlaying' = FALSE
         ELSE UNCHANGED <<sceneIsPlaying, appIsPlaying>>
    /\ lastOp' = Op("handlePause", 0)
    /\ UNCHANGED <<sceneInitialized, currentTime, phase1Time, currentPhase,
                   appCurrentTime>>

\* a frame of the scene under App: a playing frame reports its new time
\* through onTimeChange
hostedFrame(deltaTime) ==
    /\ useFrame(deltaTime)
    /\ appCurrentTime' = (IF sceneInitialized /\ sceneIsPlaying
                          THEN currentTime' ELSE appCurrentTime)
    /\ UNCHANGED appIsPlaying

(***************************************************************************)
(* Specifications                                                          *)
(***************************************************************************)
\* the components studied on their own, before they are given an input
PureInit ==
    /\ AdjustInitOn(ScenarioTimeline)
    /\ SamplerInitOn(IdleClip)
    /\ ExtractionInitOn(NoGltf)
    /\ PhaseRingIdle
    /\ ComposeIdle

Init ==
    /\ AmsInit /\ ExtInit /\ SceneInit /\ ViewInit /\ HostInit /\ PureInit
    /\ lastOp = Op("init", 0)

\* A step of the AnimationMappingSystem, of the extractor, of the scene.
AmsStep(A) ==
    A /\ UNCHANGED <<extVars, sceneVars, viewVars, hostVars, composeVars,
                     phaseRingVars, pureVars>>
ExtStep(A) ==
    A /\ UNCHANGED <<amsVars, sceneVars, viewVars, hostVars, composeVars,
                     phaseRingVars, pureVars>>
SceneStep(A) ==
    A /\ UNCHANGED <<amsVars, extVars, viewVars, hostVars, composeVars,
                     phaseRingVars, pureVars>>
\* A frame of AnimatedCamera or AnimatedRings.
UpdaterStep(A) ==
    A /\ UNCHANGED <<amsVars, extVars, hostVars, composeVars, phaseRingVars,
                     pureVars>>

\* the AnimationMappingSystem controller
Next ==
    \/ AmsStep(initializeStart)
    \/ AmsStep(initializeRingLoaded)
    \/ AmsStep(initializeRingFailed)
    \/ \E dt \in DeltaTimes : AmsStep(update(dt))
    \/ AmsStep(play)
    \/ AmsStep(pause)
    \/ AmsStep(stop)
    \/ \E s \in SpeedInputs : AmsStep(setPlaybackSpeed(s))
    \/ \E t \in AmsSeekTimes : AmsStep(seekTo(t))
Spec == Init /\ [][Next]_vars

\* the extractor: five concurrent extractions and the timeline they give
TimelineNext ==
    \/ ExtStep(extInitialize)
    \/ \E src \in Sources : ExtStep(extractionSettles(src, ExtractionResults(src)))
    \/ ExtStep(initializeComplete)
SpecTimeline == Init /\ [][TimelineNext]_vars

\* the extractor and the scene that consumes it
SceneSystemNext ==
    \/ ExtStep(extInitialize)
    \/ \E src \in Sources :
          ExtStep(extractionSettles(src, SceneExtractionResults(src)))
    \/ ExtStep(initializeComplete)
    \/ SceneStep(sceneInitializeDone)
    \/ SceneStep(playAnimation)
    \/ SceneStep(stopAnimation)
    \/ SceneStep(pauseAnimation)
    \/ \E t \in SceneSeekTimes : SceneStep(sceneSeekTo(t))
    \/ \E dt \in DeltaTimes : SceneStep(useFrame(dt))
SpecScene == Init /\ [][SceneSystemNext]_vars

\* both playback controllers: the host constructs both and drives one of
\* them (they share no state), so a behaviour exercises either the
\* AnimationMappingSystem or the scene from the constructed state
OnlyAms(A)   == ExtInit /\ SceneInit /\ AmsStep(A)
OnlyScene(A) == AmsInit /\ A

ControllersNext ==
    \/ OnlyAms(initializeStart)
    \/ OnlyAms(initializeRingLoaded)
    \/ OnlyAms(initializeRingFailed)
    \/ \E dt \in DeltaTimes : OnlyAms(update(dt))
    \/ OnlyAms(play)
    \/ OnlyAms(pause)
    \/ OnlyAms(stop)
    \/ \E s \in SpeedInputs : OnlyAms(setPlaybackSpeed(s))
    \/ \E t \in AmsSeekTimes : OnlyAms(seekTo(t))
    \/ OnlyScene(ExtStep(extInitialize))
    \/ \E src \in Sources :
          OnlyScene(ExtStep(extractionSettles(src, SceneExtractionResults(src))))
    \/ OnlyScene(ExtStep(initializeComplete))
    \/ OnlyScene(SceneStep(sceneInitializeDone))
    \/ OnlyScene(SceneStep(playAnimation))
    \/ OnlyScene(SceneStep(stopAnimation))
    \/ OnlyScene(SceneStep(pauseAnimation))
    \/ \E t \in SceneSeekTimes : OnlyScene(SceneStep(sceneSeekTo(t)))
    \/ \E dt \in DeltaTimes : OnlyScene(SceneStep(useFrame(dt)))
SpecControllers == Init /\ [][ControllersNext]_vars

\* the extractor's start-up interleaved with the frames of the scene loop
\* and of the two updaters
FrameExtractionResults(src) ==
    IF src \in {"v6Original", "camera"} THEN SceneExtractionResults(src)
    ELSE {Null}
FramesNext ==
    \/ ExtStep(extInitialize)
    \/ \E src \in Sources :
          ExtStep(extractionSettles(src, FrameExtractionResults(src)))
    \/ ExtStep(initializeComplete)
    \/ SceneStep(sceneInitializeDone)
    \/ SceneStep(playAnimation)
    \/ SceneStep(pauseAnimation)
    \/ \E dt \in DeltaTimes : SceneStep(useFrame(dt))
    \/ UpdaterStep(cameraFrame)
    \/ UpdaterStep(ringsFrame)
SpecFrames == Init /\ [][FramesNext]_vars

\* the composition of base and animated transforms on every ring clip
ComposeStep(A) ==
    A /\ UNCHANGED <<amsVars, extVars, sceneVars, viewVars, hostVars,
                     phaseRingVars, pureVars>>

InitCompose ==
    /\ AmsInit /\ ExtInit /\ SceneInit /\ ViewInit /\ HostInit
    /\ AdjustInitOn(ScenarioTimeline)
    /\ SamplerInitOn(IdleClip)
    /\ ExtractionInitOn(NoGltf)
    /\ PhaseRingIdle
    /\ \E c \in ComposeClips : ComposeInitOn(c)
    /\ lastOp = Op("init", 0)
ComposeNext ==
    \/ \E r \in Rings, t \in ComposeTimes : ComposeStep(composeTick(r, t))
    \/ \E r \in Rings, t \in ComposeTimes : ComposeStep(composeAt(r, t))
SpecCompose == InitCompose /\ [][ComposeNext]_vars

\* one ring's frames over every outcome of the extraction
PhaseRingStep(A) ==
    A /\ UNCHANGED <<amsVars, extVars, sceneVars, viewVars, hostVars,
                     composeVars, pureVars>>

InitPhaseRing ==
    /\ AmsInit /\ ExtInit /\ SceneInit /\ ViewInit /\ HostInit
    /\ AdjustInitOn(ScenarioTimeline)
    /\ SamplerInitOn(IdleClip)
    /\ ExtractionInitOn(NoGltf)
    /\ ComposeIdle
    /\ \E sc \in PhaseScenarios : PhaseRingInitOn(sc)
    /\ lastOp = Op("init", 0)
PhaseRingNext ==
    \E t \in FrameTimes, playing \in BOOLEAN, idleTime \in IdleTimes :
        PhaseRingStep(ringFrame(t, playing, idleTime))
SpecPhaseRing == InitPhaseRing /\ [][PhaseRingNext]_vars

\* the shared extractor when initialize() is called more than once
RepeatedInitNext ==
    \/ ExtStep(extInitialize)
    \/ \E src \in Sources :
          ExtStep(extractionSettles(src, SceneExtractionResults(src)))
    \/ ExtStep(initializeComplete)
    \/ ExtStep(extInitializeAgain)
SpecRepeatedInit == Init /\ [][RepeatedInitNext]_vars

\* App's buttons, the scene's frames and the extractor's start-up
HostStep(A) ==
    A /\ UNCHANGED <<amsVars, extVars, viewVars, pureVars, phaseRingVars,
                     composeVars>>

AppNext ==
    \/ ExtStep(extInitialize)
    \/ \E src \in Sources :
          ExtStep(extractionSettles(src, FrameExtractionResults(src)))
    \/ ExtStep(initializeComplete)
    \/ SceneStep(sceneInitializeDone)
    \/ HostStep(handlePlay)
    \/ HostStep(handlePause)
    \/ HostStep(handleStop)
    \/ \E dt \in DeltaTimes : HostStep(hostedFrame(dt))
SpecApp == Init /\ [][AppNext]_vars

\* the end adjustment on every timeline and frame time
AdjustStep(A) ==
    A /\ UNCHANGED <<amsVars, extVars, sceneVars, viewVars, hostVars,
                     composeVars, phaseRingVars, samplerVars, extractionVars>>

InitEndAdjust ==
    /\ AmsInit /\ ExtInit /\ SceneInit /\ ViewInit /\ HostInit
    /\ \E pd \in FxTimelines : AdjustInitOn(pd)
    /\ SamplerInitOn(IdleClip)
    /\ ExtractionInitOn(NoGltf)
    /\ PhaseRingIdle
    /\ ComposeIdle
    /\ lastOp = Op("init", 0)
EndAdjustNext ==
    \E t \in FxTimes, playing \in BOOLEAN :
        \E idle \in FxIdleTimes(fxTimeline) :
            AdjustStep(frameAdjust(t, playing, idle))
SpecEndAdjust == InitEndAdjust /\ [][EndAdjustNext]_vars

\* the samplers on every track and query time
SamplerStep(A) ==
    A /\ UNCHANGED <<amsVars, extVars, sceneVars, viewVars, hostVars,
                     composeVars, phaseRingVars, adjustVars, extractionVars>>

InitSampler ==
    /\ AmsInit /\ ExtInit /\ SceneInit /\ ViewInit /\ HostInit
    /\ AdjustInitOn(ScenarioTimeline)
    /\ \E tr \in Tracks : SamplerInitOn([duration |-> LoopDuration, track |-> tr])
    /\ ExtractionInitOn(NoGltf)
    /\ PhaseRingIdle
    /\ ComposeIdle
    /\ lastOp = Op("init", 0)
SamplerNext ==
    \/ \E t \in QueryTimes : SamplerStep(sampleTrack(t))
    \/ \E t \in QueryTimes : SamplerStep(sampleTrackAE(t))
    \/ \E t \in QueryTimes : SamplerStep(sampleRing(t))
    \/ \E t \in QueryTimes : SamplerStep(sampleRingAms(t))
SpecSampler == InitSampler /\ [][SamplerNext]_vars

\* the samplers on tracks whose keyframe times may repeat
InitRepeatedKeys ==
    /\ AmsInit /\ ExtInit /\ SceneInit /\ ViewInit /\ HostInit
    /\ AdjustInitOn(ScenarioTimeline)
    /\ \E tr \in RepeatedKeyTracks :
          SamplerInitOn([duration |-> LoopDuration, track |-> tr])
    /\ ExtractionInitOn(NoGltf)
    /\ PhaseRingIdle
    /\ ComposeIdle
    /\ lastOp = Op("init", 0)
RepeatedKeysNext ==
    \/ \E t \in QueryTimes : SamplerStep(sampleTrack(t))
    \/ \E t \in QueryTimes : SamplerStep(sampleTrackAE(t))
SpecRepeatedKeys == InitRepeatedKeys /\ [][RepeatedKeysNext]_vars

\* the extraction of ring clips from every content of the three sources
ExtractionStep(A) ==
    A /\ UNCHANGED <<amsVars, extVars, sceneVars, viewVars, hostVars,
                     composeVars, phaseRingVars, adjustVars, samplerVars>>

InitExtraction ==
    /\ AmsInit /\ ExtInit /\ SceneInit /\ ViewInit /\ HostInit
    /\ AdjustInitOn(ScenarioTimeline)
    /\ SamplerInitOn(IdleClip)
    /\ \E g \in Gltfs : ExtractionInitOn(g)
    /\ PhaseRingIdle
    /\ ComposeIdle
    /\ lastOp = Op("init", 0)
ExtractionNext ==
    \/ \E r \in Rings : ExtractionStep(extractRingAnimation(r))
    \/ \E r \in Rings : ExtractionStep(extractRingAnimationThrows(r))
    \/ \E r \in Rings : ExtractionStep(multiExtractRingAnimation(r))
    \/ \E r \in Rings : ExtractionStep(multiExtractRingAnimationFails(r))
SpecExtraction == InitExtraction /\ [][ExtractionNext]_vars

(***************************************************************************)
(* Properties                                                              *)
(***************************************************************************)

\* C1: a tick of AnimationMappingSystem.update(deltaTime) moves the clock
\* to globalTime + deltaTime * playbackSpeed when the system is initialized
\* and playing, and leaves it where it was otherwise (so the clock is frozen
\* under ticks after pause()).
C1_UpdateOnlyWhilePlaying ==
    [][lastOp'.op = "update" =>
          globalTime' = (IF isInitialized /\ isPlaying
                         THEN globalTime + lastOp'.arg * playbackSpeed
                         ELSE globalTime)]_vars

\* a tick taken while paused, after the clock had advanced
C1_Witness ==
    /\ lastOp = Op("update", 1)
    /\ isInitialized /\ ~isPlaying
    /\ globalTime > 0

\* C2: in both controllers the playing flag is set only once initialization
\* has completed.
C2_PlayingImpliesInitialized ==
    /\ isPlaying => isInitialized
    /\ sceneIsPlaying => sceneInitialized

\* play() has acted before initialization completed and was ignored
C2_Witness ==
    \/ lastOp.op = "play" /\ ~isInitialized /\ amsPc = "loading"
    \/ lastOp.op = "playAnimation" /\ ~sceneInitialized /\ extPc = "extracting"

\* C3: stop() leaves the controller not playing with the clock at 0, and a
\* tick taken while not playing with the clock at 0 leaves both as they are
\* (so the clock stays 0 until play() or seek()).
C3_StopResetsAndHolds ==
    [][/\ lastOp'.op = "stop" => (~isPlaying' /\ globalTime' = 0)
       /\ lastOp'.op = "stopAnimation" => (~sceneIsPlaying' /\ currentTime' = 0)
       /\ (lastOp'.op = "update" /\ ~isPlaying /\ globalTime = 0)
             => (~isPlaying' /\ globalTime' = 0)
       /\ (lastOp'.op = "useFrame" /\ ~sceneIsPlaying /\ currentTime = 0)
             => (~sceneIsPlaying' /\ currentTime' = 0)]_vars

\* a tick after a stop() that followed playback (the rings had been sampled
\* at a later time)
C3_Witness ==
    /\ lastOp = Op("update", 1)
    /\ isInitialized /\ ~isPlaying /\ globalTime = 0
    /\ \E r \in Rings : ringSampleTime[r].sampled /\ ringSampleTime[r].time.v > 0

\* C4: after seek(t) the clock is max(0, t), in both controllers, so the
\* clock handed to the sampler is never negative.
C4_SeekClamps ==
    /\ lastOp.op = "seekTo" => globalTime = Max(0, lastOp.arg)
    /\ lastOp.op = "sceneSeekTo" => currentTime = Max(0, lastOp.arg)
    /\ globalTime >= 0
    /\ currentTime >= 0

C6_ClockWrapped ==
    (lastOp.op = "useFrame" /\ sceneInitialized /\ sceneIsPlaying /\ totalDuration > 0)
        => (0 <= currentTime /\ currentTime < totalDuration)

\* C7: after initialize(), totalDuration is the sum of the three phase
\* durations and a time just before totalDuration resolves to phase 3.
C7_DurationLaw ==
    extInitialized =>
        /\ totalDuration = phaseDurations.phase1 + phaseDurations.phase2
                             + phaseDurations.phase3
        /\ getCurrentPhase(totalDuration - 1).phase = 3

\* C8 (as stated): with phases 7, 2 and 5 the total is 14, t = 7 resolves to
\* the second phase with local time 0 and t = 9 to the third phase with
\* local time 0.
C8_BoundaryStartsNextPhase ==
    (extInitialized /\ phaseDurations = [phase1 |-> 7, phase2 |-> 2, phase3 |-> 5])
        => /\ totalDuration = 14
           /\ getCurrentPhase(7) = [phase |-> 2, phaseTime |-> 0]
           /\ getCurrentPhase(9) = [phase |-> 3, phaseTime |-> 0]

\* C8 (amended): with phases 7, 2 and 5 the total is 14, t = 7 still
\* resolves to the first phase with local time 7 and t = 9 to the second
\* phase with local time 2.  In general a time equal to the cumulative end
\* of phase 1 or phase 2 resolves to that phase, with local time equal to
\* its duration, and the next phase is active just after it.
C8_BoundaryEndsPhase ==
    extInitialized =>
        LET p1 == phaseDurations.phase1
            p2 == phaseDurations.phase2
        IN  /\ getCurrentPhase(p1) = [phase |-> 1, phaseTime |-> p1]
            /\ getCurrentPhase(p1 + p2) = [phase |-> 2, phaseTime |-> p2]
            /\ getCurrentPhase(p1 + 1) = [phase |-> 2, phaseTime |-> 1]
            /\ getCurrentPhase(p1 + p2 + 1) = [phase |-> 3, phaseTime |-> 1]
            /\ phaseDurations = [phase1 |-> 7, phase2 |-> 2, phase3 |-> 5]
                 => /\ totalDuration = 14
                    /\ getCurrentPhase(7) = [phase |-> 1, phaseTime |-> 7]
                    /\ getCurrentPhase(9) = [phase |-> 2, phaseTime |-> 2]

\* the 7 + 2 + 5 timeline has been built
C8_Witness ==
    /\ extInitialized
    /\ animationData["v6Original"] = Clip(7)
    /\ phaseDurations = [phase1 |-> 7, phase2 |-> 2, phase3 |-> 5]

C10_PhasesPositive ==
    extInitialized =>
        /\ phaseDurations.phase1 > 0
        /\ phaseDurations.phase2 > 0
        /\ phaseDurations.phase3 > 0

\* C11: on the 7 + 2 + 5 timeline (14.0 s, window 1.5 s) the end-adjust
\* smoothing factor of the camera updater, and of the ring updater when it
\* runs, is 0 at every frame time t <= 12.5, is 1 at t = 14.0, and is
\* strictly larger at the later of two frame times in (12.5, 14.0].
C11_EndAdjustScenario ==
    [][(fxTimeline' = ScenarioTimeline /\ lastOp'.op = "frameAdjust") =>
          LET t == fxFrame'.currentTime
              InWindow(u) == u > 125 /\ u <= 140
          IN  /\ t <= 125 => cameraSmooth'.num = 0
              /\ t = 140 => cameraSmooth'.num = EaseDen
              /\ (cameraSmooth.ran /\ InWindow(fxFrame.currentTime)
                    /\ InWindow(t) /\ fxFrame.currentTime < t)
                    => cameraSmooth.num < cameraSmooth'.num
              /\ ringsSmooth'.ran =>
                    /\ t <= 125 => ringsSmooth'.num = 0
                    /\ t = 140 => ringsSmooth'.num = EaseDen
                    /\ (ringsSmooth.ran /\ InWindow(fxFrame.currentTime)
                          /\ InWindow(t) /\ fxFrame.currentTime < t)
                          => ringsSmooth.num < ringsSmooth'.num]_vars
C11_Witness ==
    /\ fxTimeline = ScenarioTimeline
    /\ lastOp.op = "frameAdjust"
    /\ fxFrame.currentTime = 133
    /\ fxFrame.isPlaying
    /\ cameraSmooth.num > 0 /\ cameraSmooth.num < EaseDen
    /\ ringsSmooth = cameraSmooth

\* C12 as stated: at every frame time t with totalDuration - W < t <=
\* totalDuration the factor is strictly positive on every timeline.
C12_WindowIgnoresPhases ==
    LET t == fxFrame.currentTime
        total == totalOf(fxTimeline)
    IN  (lastOp.op = "frameAdjust" /\ total - adjustDuration < t /\ t <= total)
           => /\ cameraSmooth.num > 0
              /\ ringsSmooth.ran => ringsSmooth.num > 0
\* C12 (amended): at every frame time t inside the window the factor is
\* strictly positive exactly when t resolves to Phase 3, and 0 when t
\* resolves to an earlier phase (a Phase 3 shorter than the window).
C12_WindowWithinPhase3 ==
    LET t == fxFrame.currentTime
        total == totalOf(fxTimeline)
        inPhase3 == t > fxTimeline.phase1 + fxTimeline.phase2
    IN  (lastOp.op = "frameAdjust" /\ total - adjustDuration < t /\ t <= total)
           => /\ cameraSmooth.num > 0 <=> inPhase3
              /\ ringsSmooth.ran => (ringsSmooth.num > 0 <=> inPhase3)
C12_Witness ==
    /\ fxTimeline.phase3 = ShortPhase3
    /\ lastOp.op = "frameAdjust"
    /\ fxFrame.isPlaying
    /\ fxFrame.currentTime = totalOf(fxTimeline) - 2
    /\ cameraSmooth.num > 0
    /\ ringsSmooth.ran /\ ringsSmooth.num > 0

\* C13: for a looping clip of duration D > 0, a ring sampled at time t gets
\* the same transform as at t + k * D, for every t and every integer k,
\* in the single-clip extractor and in the AnimationMappingSystem.
C13_LoopingLaw ==
    LET D == sampledClip.duration
        t == sampled.time
    IN  /\ lastOp.op = "getRingTransformAtTime" =>
              \A k \in (0 - MaxLoops)..MaxLoops :
                  sampled.value = getRingTransformAtTime(sampledClip, t + k * D)
        /\ lastOp.op = "updateRingTransform" =>
              \A k \in (0 - MaxLoops)..MaxLoops :
                  sampled.value = updateRingTransformAtTime(sampledClip, t + k * D)

\* C14: for a track with at least one keyframe, a query before the first
\* keyframe returns what a query at the first keyframe returns, and a
\* query after the last keyframe what a query at the last keyframe returns.
C14_BoundaryClamp ==
    LET track == sampledClip.track
        n     == Len(track.times)
        t     == sampled.time
        At(u) == interpolateProperty(track, u, track.componentCount)
    IN  (lastOp.op = "interpolateProperty" /\ n >= 1) =>
           /\ t < track.times[1] => sampled.value = At(track.times[1])
           /\ t > track.times[n] => sampled.value = At(track.times[n])

\* C15: for a vector or scalar track and a query time t with
\* times[i] <= t <= times[i+1], every sampled component is
\* v_i + (v_{i+1} - v_i) * (t - t_i) / (t_{i+1} - t_i); a query at a keyframe
\* time returns that keyframe's value; times = [0, 1], values =
\* [0,0,0, 10,0,0] queried at 0.5 (here [0, 2] at 1, in half seconds)
\* gives (5, 0, 0).
C15_InterpolationCorrect ==
    LET track == sampledClip.track
        cc    == track.componentCount
        n     == Len(track.times)
        t     == sampled.time
        v(i, c) == track.values[(i - 1) * cc + c]
    IN  (lastOp.op \in {"interpolateProperty", "interpolatePropertyAE"}
            /\ cc \in {1, 3}) =>
           /\ \A i \in 1..(n - 1) :
                 (track.times[i] <= t /\ t <= track.times[i + 1]) =>
                    (/\ ~sampled.value.slerp
                     /\ Len(sampled.value.comps) = cc
                     /\ \A c \in 1..cc :
                          LET r  == sampled.value.comps[c]
                              dt == track.times[i + 1] - track.times[i]
                          IN  r.num * dt =
                                r.den * (v(i, c) * dt
                                  + (v(i + 1, c) - v(i, c)) * (t - track.times[i])))
           /\ \A j \in 1..n :
                 t = track.times[j] =>
                    sampled.value.comps = [c \in 1..cc |-> Whole(v(j, c))]
           /\ (track.times = <<0, 2>> /\ track.values = <<0, 0, 0, 10, 0, 0>>
                 /\ t = 1) =>
                    sampled.value.comps = <<Whole(5), Whole(0), Whole(0)>>
C15_Witness ==
    /\ lastOp.op = "interpolateProperty"
    /\ sampledClip.track.times = <<0, 2>>
    /\ sampledClip.track.values = <<0, 0, 0, 10, 0, 0>>
    /\ sampled.time = 1
    /\ sampled.value.comps = <<Whole(5), Whole(0), Whole(0)>>

C17_UnmatchedTargetIsEmpty ==
    \A r \in Rings :
        LET mapping == getAnimationMapping(r)
            tracks  == AllTracks(gltfAnimations[mapping.source])
        IN  (/\ lastOp.op \in {"extractRingAnimation", "multiExtractRingAnimation"}
             /\ lastOp.arg = r
             /\ \A i \in 1..Len(tracks) : tracks[i].node # mapping.sourceObject)
            => /\ returned.via # "error"
               /\ ~returned.clip.position
               /\ returned.clip.rotation = "none"
               /\ ~returned.clip.scale
               /\ returned.clip.duration = 0

\* C18: once a clip is cached under a ring's (source, sourceObject) key,
\* every later request for that key returns that clip, leaves the cache
\* alone and scans nothing, so no source is scanned twice; a request that
\* finds no entry stores the clip it returns; a failed request stores
\* nothing.
C18_ExtractionCache ==
    [][\A r \in Rings :
          LET key == cacheKey(r) IN
          /\ (lastOp'.op = "extractRingAnimation" /\ lastOp'.arg = r) =>
                /\ animationCache[key].kind # "none" =>
                      /\ returned'.clip = animationCache[key]
                      /\ animationCache' = animationCache
                      /\ scanCount' = scanCount
                /\ animationCache[key].kind = "none" =>
                      /\ animationCache'[key] = returned'.clip
                      /\ returned'.clip.kind = "clip"
                /\ scanCount'[key] <= 1
          /\ (lastOp'.op = "extractRingAnimationThrows" /\ lastOp'.arg = r) =>
                /\ animationCache' = animationCache
                /\ animationCache'[key].kind = "none"]_vars
C18_Witness ==
    /\ lastOp.op = "extractRingAnimation"
    /\ lastOp.arg = "ring2"
    /\ returned.via = "cache"
    /\ returned.clip = animationCache[cacheKey("ring2")]
    /\ returned.clip.position
    /\ scanCount[cacheKey("ring2")] = 1
    /\ animationCache[cacheKey("ring1")].kind = "none"

\* C19: when the extraction of a source fails, initialize() still ends with
\* the system initialized, every other source's clip stored and the failed
\* source's clip absent; for MultiSourceAnimationExtractor.initialize and
\* for AnimationMappingSystem.initialize.
C19_ExtractorTolerant ==
    extPc = "done" =>
        /\ extInitialized
        /\ \A src \in Sources :
              extSettled[src] /\ animationData[src] = extResult[src]
C19_PartialResultTolerance ==
    /\ C19_ExtractorTolerant
    /\ amsPc \in {"done", "failed"} =>
          /\ isInitialized
          /\ amsLoaded = Len(RingOrder)

\* C20: isReady() is false until all five extractions have settled and
\* the phase durations and totalDuration have been computed from them, and
\* a frame of the scene loop, of AnimatedCamera or of AnimatedRings asks
\* the timeline only when isReady() is true.
C20_NoQueryBeforeReady ==
    /\ isReady =>
          /\ \A src \in Sources : extSettled[src]
          /\ phaseDurations = calculateThreePhaseDuration(extResult)
          /\ totalDuration = totalOf(phaseDurations)
    /\ lastOp.queried => isReady
    /\ (cameraView.set \/ ringsView.set \/ sceneInitialized) => isReady
C20_Witness ==
    /\ lastOp.op = "ringsFrame"
    /\ lastOp.queried
    /\ animationData["v6Original"] = Null
    /\ ringsView.set /\ ringsView.time > 0
    /\ cameraView.set /\ cameraView.phase = 2

\* C25: for every time t in [0, totalDuration], getCurrentPhase(t) is the
\* first phase whose cumulative end is >= t, phaseTime is t minus the
\* durations of the phases before it, and so lies in [0, duration of the
\* resolved phase].
C25_PhaseResolution ==
    extInitialized =>
        LET dur    == <<phaseDurations.phase1, phaseDurations.phase2,
                        phaseDurations.phase3>>
            starts == <<0, dur[1], dur[1] + dur[2]>>
        IN  \A t \in 0..totalDuration :
                LET r == getCurrentPhase(t)
                IN  /\ starts[r.phase] + dur[r.phase] >= t
                    /\ \A q \in 1..(r.phase - 1) : starts[q] + dur[q] < t
                    /\ r.phaseTime = t - starts[r.phase]
                    /\ r.phaseTime >= 0 /\ r.phaseTime <= dur[r.phase]
C25_Witness ==
    /\ extInitialized
    /\ lastOp.op = "initializeComplete"
    /\ phaseDurations.phase1 = OtherV6Duration
    /\ phaseDurations.phase3 = RingDuration
    /\ getCurrentPhase(totalDuration).phase = 3
    /\ getCurrentPhase(OtherV6Duration + 1).phase = 2

\* C26: on every timeline initialize() produces, the progress reported for
\* every t in [0, totalDuration], and for the time the main clock holds
\* (ticks and seeks), is a finite number in [0, 1].
C26_ProgressDefined ==
    extInitialized =>
        LET Good(p) == /\ p.kind = "finite"
                       /\ p.value.num >= 0
                       /\ p.value.num <= p.value.den
        IN  /\ \A t \in 0..totalDuration : Good(progressOf(phaseDurations, t))
            /\ Good(progressOf(phaseDurations, currentTime))

\* C28: whenever the scene is initialized, not playing and the main clock
\* resolves to Phase 1, the idle clock that the rings are sampled at
\* resolves to Phase 1 too: phase1Time <= phaseDurations.phase1.
C28_IdleClockInPhase1 ==
    (sceneInitialized /\ ~sceneIsPlaying
        /\ getCurrentPhase(currentTime).phase = 1)
        => /\ phase1Time <= phaseDurations.phase1
           /\ getCurrentPhase(phase1Time).phase = 1

\* C29: after every sequence of App's Play, Pause and Stop handlers
\* interleaved with the initialization, App's isPlaying flag equals the
\* scene's isPlaying flag.
C29_PlayStatusMatches ==
    appIsPlaying = sceneIsPlaying

\* C21: once isReady() is true, no later operation on the extractor,
\* a repeated initialize() included, changes animationData, phaseDurations
\* or totalDuration.
C21_ImmutableAfterReady ==
    [][isReady => /\ animationData' = animationData
                  /\ phaseDurations' = phaseDurations
                  /\ totalDuration' = totalDuration]_vars

\* C22: every composed transform handed out for a ring at time t, by the
\* per-tick update or precomputed, has position = base position + animated
\* position and scale = base scale times animated scale on every axis,
\* the animated transform being the clip sampled at t mod duration.
C22_CompositionLaw ==
    composed.via # "none" =>
        LET base     == initializeRingTransforms(composed.ring)
            animated == interpolateTransformOf(
                            composeClip,
                            JsRem(composed.time, composeClip.duration))
        IN  \A c \in 1..3 :
                /\ composed.position[c] =
                       RatAdd(base.basePosition[c], animated.position[c])
                /\ composed.scale[c] =
                       RatMul(base.baseScale[c], animated.scale[c])

\* C23: a ring whose Phase-3 clip is null is at its base transform after
\* every playing frame of Phase 3, whatever earlier frames did to it.
C23_DegradedRingAtBase ==
    (/\ ringQuery.asked /\ ringQuery.isPlaying
     /\ ~phaseScenario.ring.present
     /\ getCurrentPhaseOf(phaseDurationsOf(phaseScenario),
                          ringQuery.currentTime).phase = 3)
        => ringPose = BasePose

\* C24: a ring clip of duration 0 is answered like a missing clip at every
\* query time, and no NaN time reaches the sampler.
C24_ZeroDurationAsAbsent ==
    (/\ ringQuery.asked
     /\ phaseScenario.ring.present /\ phaseScenario.ring.duration = 0)
        => /\ ringQuery.answer.result =
                  getRingTransformAtTimeThreePhase(
                      [phaseScenario EXCEPT !.ring = NoRingData],
                      ringQuery.time).result
           /\ ~(ringQuery.answer.passed.sampled
                 /\ ringQuery.answer.passed.time.nan)

\* C27: at every time of Phase 2 the ring's transform is the Phase-1
\* clip's track at its last keyframe.
C27_Phase2HoldsFinalState ==
    (/\ ringQuery.asked /\ phaseScenario.v6.track # NoTrack
     /\ getCurrentPhaseOf(phaseDurationsOf(phaseScenario),
                          ringQuery.time).phase = 2)
        => LET track == phaseScenario.v6.track
           IN  ringQuery.answer.result.position =
                   keyframeAt(track.values, Len(track.times), 3)

\* C30: on every track whose keyframe times never decrease and at every
\* query time, interpolateProperty returns a defined value (never the
\* result of a division by zero); within the keyframes' range the value is
\* one of, or lies between, the two keyframes of an interval around the
\* query time.
C30_RatLeq(a, b) == a.num * b.den <= b.num * a.den
C30_Defined(v) ==
    /\ \A c \in 1..Len(v.comps) : v.comps[c].den # 0
    /\ v.factor.den # 0
C30_Bracketed(track, time, v) ==
    LET cc == track.componentCount
        n  == Len(track.times)
    IN  \/ v.slerp
        \/ \E i \in 1..n : /\ track.times[i] = time
                            /\ v.comps = keyframeAt(track.values, i, cc)
        \/ \E i \in 1..(n - 1) :
              /\ track.times[i] <= time /\ time <= track.times[i + 1]
              /\ \A c \in 1..cc :
                    LET a == keyframeAt(track.values, i, cc)[c]
                        b == keyframeAt(track.values, i + 1, cc)[c]
                    IN  \/ C30_RatLeq(a, v.comps[c]) /\ C30_RatLeq(v.comps[c], b)
                        \/ C30_RatLeq(b, v.comps[c]) /\ C30_RatLeq(v.comps[c], a)
C30_NoDivisionByZero ==
    (lastOp.op \in {"interpolateProperty", "interpolatePropertyAE"}
     /\ Len(sampledClip.track.times) > 0)
        => /\ C30_Defined(sampled.value)
           /\ (/\ sampledClip.track.times[1] <= sampled.time
               /\ sampled.time <= sampledClip.track.times[Len(sampledClip.track.times)])
                  => C30_Bracketed(sampledClip.track, sampled.time, sampled.value)

====
